---- MODULE Spec2Model ----
(***************************************************************************)
(* A model of manual_apk_builder.py: the AXML encoder (encode_length,      *)
(* build_string_pool, build_resource_map, the namespace and element chunk  *)
(* builders, build_manifest) and the build pipeline of main().             *)
(*                                                                         *)
(* Python values are modelled as follows.  A bytes object is a sequence of *)
(* integers 0..255.  A str is a sequence of Unicode code points.  A dict   *)
(* is a function.  Indices are 0-based as in the source; positions in a    *)
(* TLA+ sequence are 1-based, so byte offset o of a buffer b is b[o + 1].  *)
(***************************************************************************)
EXTENDS Integers, Sequences, FiniteSets, TLC

VARIABLES
    value, lenRet,                                   \* a call of encode_length
    strings, idx, offsets, body, poolPc, poolRet,    \* a call of build_string_pool
    pc, dexExists, keystoreExists, outputFile,       \* a run of main()
    indexes, manifest, callNo, manifestBytes, runs

lenVars  == <<value, lenRet>>
poolVars == <<strings, idx, offsets, body, poolPc, poolRet>>
mainVars == <<pc, dexExists, keystoreExists, outputFile, indexes, manifest, callNo,
              manifestBytes, runs>>
vars     == <<value, lenRet, strings, idx, offsets, body, poolPc, poolRet,
              pc, dexExists, keystoreExists, outputFile, indexes, manifest, callNo,
              manifestBytes, runs>>

----------------------------------------------------------------------------
(* Android XML / APK constants                                             *)

RES_XML_TYPE == 3
RES_STRING_POOL_TYPE == 1
RES_XML_RESOURCE_MAP_TYPE == 384
RES_XML_START_NAMESPACE_TYPE == 256
RES_XML_END_NAMESPACE_TYPE == 257
RES_XML_START_ELEMENT_TYPE == 258
RES_XML_END_ELEMENT_TYPE == 259
DATA_TYPE_STRING == 3
ANDROID_NAME_RESOURCE_ID == 16842755
\* 0x3FFF and 0x7F, the two thresholds of encode_length
MaxEncodable == 16383
MaxOneByte == 127
\* Python's None, for an int | None argument
None == -1

----------------------------------------------------------------------------
(* Bounds of the model                                                     *)

\* encode_length is called with every value in -BelowRange .. 0x3FFF + AboveRange
BelowRange == 3
AboveRange == 3
\* build_string_pool is called with every list of at most MaxStrings strings
MaxStrings == 3
\* the script is run at most MaxRuns times on the same files
MaxRuns == 2

----------------------------------------------------------------------------
(* struct.pack and bytes helpers                                           *)

\* struct.pack("<H", v)
PackH(v) == <<v % 256, (v \div 256) % 256>>

\* struct.pack("<I", v)
PackI(v) == <<v % 256, (v \div 256) % 256, (v \div 65536) % 256, (v \div 16777216) % 256>>

\* struct.pack("<B", v)
PackB(v) == <<v % 256>>

\* struct.pack("<I", 0xFFFFFFFF): the value exceeds the model checker's integers,
\* so the sentinel is kept as the four bytes it is packed to
NoIndex == <<255, 255, 255, 255>>

\* a plausible slip: None written as 0, which is a valid pool index
PackIndexZero(x) == IF x = None THEN PackI(0) ELSE PackI(x)

\* struct.pack("<I", x if x is not None else 0xFFFFFFFF)
PackIndex(x) == IF x = None THEN NoIndex ELSE PackI(x)

\* b"".join(chunks)
RECURSIVE Join(_)
Join(chunks) ==
    IF chunks = <<>> THEN <<>> ELSE Head(chunks) \o Join(Tail(chunks))

\* a str of n copies of the code point c
Rep(c, n) == [k \in 1..n |-> c]

\* str.encode("utf-8") of one code point
Utf8Char(cp) ==
    IF cp < 128 THEN <<cp>>
    ELSE IF cp < 2048 THEN <<192 + (cp \div 64), 128 + (cp % 64)>>
    ELSE IF cp < 65536
        THEN <<224 + (cp \div 4096), 128 + ((cp \div 64) % 64), 128 + (cp % 64)>>
    ELSE <<240 + (cp \div 262144), 128 + ((cp \div 4096) % 64),
           128 + ((cp \div 64) % 64), 128 + (cp % 64)>>

\* str.encode("utf-8"), the concatenation of the code points' encodings
\* (computed by halving, which keeps the evaluation shallow on long strings).
\* A str is taken to hold Unicode scalar values only (no lone surrogates), on
\* which the encoding is total.
RECURSIVE Utf8(_)
Utf8(text) ==
    IF Len(text) = 0 THEN <<>>
    ELSE IF Len(text) = 1 THEN Utf8Char(text[1])
    ELSE LET h == Len(text) \div 2
         IN  Utf8(SubSeq(text, 1, h)) \o Utf8(SubSeq(text, h + 1, Len(text)))

\* Python's & and | on non-negative integers, bit by bit
RECURSIVE BitAnd(_, _)
BitAnd(a, b) ==
    IF a = 0 \/ b = 0 THEN 0
    ELSE ((a % 2) * (b % 2)) + (2 * BitAnd(a \div 2, b \div 2))

RECURSIVE BitOr(_, _)
BitOr(a, b) ==
    IF a = 0 THEN b
    ELSE IF b = 0 THEN a
    ELSE (IF (a % 2) + (b % 2) > 0 THEN 1 ELSE 0) + (2 * BitOr(a \div 2, b \div 2))

\* Python's a >> k on a non-negative integer
RECURSIVE ShiftRight(_, _)
ShiftRight(a, k) == IF k = 0 THEN a ELSE ShiftRight(a \div 2, k - 1)

----------------------------------------------------------------------------
(* encode_length                                                           *)

\* A call either raises (raised = TRUE, no bytes) or returns bytes.
Raise == [raised |-> TRUE, bytes |-> <<>>]
Return(b) == [raised |-> FALSE, bytes |-> b]

\* a plausible slip: the one-byte form kept up to 0x80
EncodeLengthOffByOne(n) ==
    IF n < 0 \/ n > MaxEncodable THEN Raise
    ELSE IF n <= MaxOneByte + 1 THEN Return(<<n>>)
    ELSE Return(<<BitOr(BitAnd(n, 127), 128), ShiftRight(n, 7)>>)

\* a plausible slip: the range check accepts 0x4000
EncodeLengthWideRange(n) ==
    IF n < 0 \/ n > MaxEncodable + 1 THEN Raise
    ELSE IF n <= MaxOneByte THEN Return(<<n>>)
    ELSE Return(<<BitOr(BitAnd(n, 127), 128), ShiftRight(n, 7)>>)

encode_length(n) ==
    IF n < 0 \/ n > MaxEncodable THEN Raise
    ELSE IF n <= MaxOneByte THEN Return(<<n>>)
    ELSE Return(<<BitOr(BitAnd(n, 127), 128), ShiftRight(n, 7)>>)

----------------------------------------------------------------------------
(* A call of encode_length                                                 *)

NotCalled == [raised |-> FALSE, bytes |-> <<>>, called |-> FALSE]

LenValues == (0 - BelowRange) .. (MaxEncodable + AboveRange)

LenIdle == value = 0 /\ lenRet = NotCalled
PoolIdle ==
    /\ strings = <<>> /\ idx = 0 /\ offsets = <<>> /\ body = <<>>
    /\ poolPc = "idle" /\ poolRet = <<>>
MainIdle ==
    /\ pc = "idle" /\ dexExists = FALSE /\ keystoreExists = FALSE
    /\ outputFile = "absent" /\ indexes = <<>> /\ manifest = <<>> /\ callNo = 0
    /\ manifestBytes = <<>> /\ runs = 0

LenInit ==
    /\ value \in LenValues
    /\ lenRet = NotCalled
    /\ PoolIdle /\ MainIdle

CallEncodeLength ==
    /\ ~lenRet.called
    /\ lenRet' = [raised |-> encode_length(value).raised,
                  bytes |-> encode_length(value).bytes,
                  called |-> TRUE]
    /\ UNCHANGED <<value, poolVars, mainVars>>

LenNext == CallEncodeLength

SpecLen == LenInit /\ [][LenNext]_vars

\* What a reader of the pool does with a length prefix: one byte when the high
\* bit of the first byte is clear, otherwise the low seven bits of the first
\* byte and the second byte above them.
DecodeLength(b) ==
    IF b[1] < 128 THEN b[1] ELSE (b[1] - 128) + (128 * b[2])

\* C3: encode_length(n) returns the single byte n for 0 <= n <= 0x7F, returns
\* the two bytes ((n & 0x7F) | 0x80, n >> 7), which decode back to n, for
\* 0x80 <= n <= 0x3FFF, and raises, returning no bytes, for n < 0 and for
\* n > 0x3FFF.
C3_EncodeLength ==
    lenRet.called =>
        /\ (0 <= value /\ value <= 127) =>
               /\ ~lenRet.raised
               /\ lenRet.bytes = <<value>>
               /\ DecodeLength(lenRet.bytes) = value
        /\ (128 <= value /\ value <= 16383) =>
               /\ ~lenRet.raised
               /\ Len(lenRet.bytes) = 2
               /\ lenRet.bytes[1] = (value % 128) + 128
               /\ lenRet.bytes[2] = value \div 128
               /\ \A k \in 1..2 : lenRet.bytes[k] \in 0..255
               /\ DecodeLength(lenRet.bytes) = value
        /\ (value < 0 \/ value > 16383) =>
               /\ lenRet.raised
               /\ lenRet.bytes = <<>>

\* a two-byte length has been encoded, at the top of the range
C3_Witness ==
    /\ lenRet.called /\ value = 16383 /\ lenRet.bytes = <<255, 127>>

----------------------------------------------------------------------------
(* build_string_pool                                                       *)

Range(f) == {f[k] : k \in DOMAIN f}

Zeros(n) == [k \in 1..n |-> 0]

\* a plausible slip: a whole word of padding added to an aligned body
PadWrong(b) == b \o Zeros(4 - (Len(b) % 4))

\* while len(body) % 4: body += b"\x00"
Pad(b) == b \o Zeros((4 - (Len(b) % 4)) % 4)

\* what one iteration of the loop adds to the body (lines 50-52)
EntryBytes(l1, l2, encoded) == l1 \o l2 \o encoded \o <<0>>

\* for offset in offsets: chunk += struct.pack("<I", offset)
RECURSIVE PackOffsets(_)
PackOffsets(offs) ==
    IF offs = <<>> THEN <<>> ELSE PackI(Head(offs)) \o PackOffsets(Tail(offs))

\* lines 55-62: the header, the offset table and the padded body
PoolChunk(strs, offs, bod) ==
    LET header_size == 28
        flags_utf8 == 256
        strings_start == header_size + (Len(strs) * 4)
        chunk_size == strings_start + Len(bod)
    IN  PackH(RES_STRING_POOL_TYPE) \o PackH(header_size) \o PackI(chunk_size)
        \o PackI(Len(strs)) \o PackI(0) \o PackI(flags_utf8)
        \o PackI(strings_start) \o PackI(0)
        \o PackOffsets(offs) \o bod

\* a deduplicating builder would keep the first index of a repeated string
MappingFirst(strs) ==
    [t \in Range(strs) |->
        (CHOOSE k \in 1..Len(strs) :
            strs[k] = t /\ \A j \in 1..Len(strs) : strs[j] = t => j >= k) - 1]

\* {text: index for index, text in enumerate(strings)}: a later entry of the
\* comprehension overwrites an earlier one with the same key
Mapping(strs) ==
    [t \in Range(strs) |->
        (CHOOSE k \in 1..Len(strs) :
            strs[k] = t /\ \A j \in 1..Len(strs) : strs[j] = t => j <= k) - 1]

NoPool == [returned |-> FALSE, chunk |-> <<>>, mapping |-> <<>>]

\* The short strings the builder is called with: the empty string, ASCII, an
\* embedded NUL, code points of two, three and four UTF-8 bytes, and strings
\* at both sides of the one-byte limit of the character count and of the
\* byte count.
StringChoices ==
    { <<>>, <<97>>, <<97, 98>>, <<0>>, <<233>>, <<8364, 98>>, <<128512>>,
      Rep(97, MaxOneByte), Rep(97, MaxOneByte + 1), Rep(233, 64) }

\* The strings at the two-byte limit: the longest that can be encoded, one
\* character more, and one whose character count fits and whose byte count
\* (two bytes a character) does not.
LongChoices ==
    { Rep(97, MaxEncodable), Rep(97, MaxEncodable + 1),
      Rep(233, (MaxEncodable + 1) \div 2) }

\* what precedes or follows a long string in a list
Around == { <<>>, << <<97>> >>, << <<233>> >> }

StringLists ==
    UNION {[1..k -> StringChoices] : k \in 0..MaxStrings}
    \cup {pre \o <<long>> \o post : pre \in Around, long \in LongChoices, post \in Around}

PoolInit ==
    /\ strings \in StringLists
    /\ idx = 0 /\ offsets = <<>> /\ body = <<>>
    /\ poolPc = "loop" /\ poolRet = NoPool
    /\ LenIdle /\ MainIdle

\* one iteration of "for text in strings" (lines 47-52); idx counts the
\* entries already consumed
PoolIterate ==
    /\ poolPc = "loop" /\ idx < Len(strings)
    /\ LET text == strings[idx + 1]
           encoded == Utf8(text)
           l1 == encode_length(Len(text))
           l2 == encode_length(Len(encoded))
       IN  IF l1.raised
           THEN /\ poolPc' = "raised"
                /\ offsets' = Append(offsets, Len(body))
                /\ UNCHANGED <<idx, body>>
           ELSE IF l2.raised
           THEN /\ poolPc' = "raised"
                /\ offsets' = Append(offsets, Len(body))
                /\ body' = body \o l1.bytes
                /\ UNCHANGED idx
           ELSE /\ offsets' = Append(offsets, Len(body))
                /\ body' = body \o EntryBytes(l1.bytes, l2.bytes, encoded)
                /\ idx' = idx + 1
                /\ UNCHANGED poolPc
    /\ UNCHANGED <<strings, poolRet, lenVars, mainVars>>

\* the loop is exhausted; lines 53-54
PoolPad ==
    /\ poolPc = "loop" /\ idx = Len(strings)
    /\ body' = Pad(body)
    /\ poolPc' = "pack"
    /\ UNCHANGED <<strings, idx, offsets, poolRet, lenVars, mainVars>>

\* lines 55-64
PoolReturn ==
    /\ poolPc = "pack"
    /\ poolRet' = [returned |-> TRUE,
                   chunk |-> PoolChunk(strings, offsets, body),
                   mapping |-> Mapping(strings)]
    /\ poolPc' = "returned"
    /\ UNCHANGED <<strings, idx, offsets, body, lenVars, mainVars>>

PoolNext == PoolIterate \/ PoolPad \/ PoolReturn

SpecPool == PoolInit /\ [][PoolNext]_vars

\* build_string_pool as one call: the loop run to its end, or to the raise
RECURSIVE PoolLoop(_, _, _, _)
PoolLoop(strs, k, offs, bod) ==
    IF k = Len(strs) THEN [raised |-> FALSE, offsets |-> offs, body |-> bod]
    ELSE LET text == strs[k + 1]
             encoded == Utf8(text)
             l1 == encode_length(Len(text))
             l2 == encode_length(Len(encoded))
         IN  IF l1.raised \/ l2.raised
             THEN [raised |-> TRUE, offsets |-> <<>>, body |-> <<>>]
             ELSE PoolLoop(strs, k + 1, Append(offs, Len(bod)),
                           bod \o EntryBytes(l1.bytes, l2.bytes, encoded))

build_string_pool(strs) ==
    LET r == PoolLoop(strs, 0, <<>>, <<>>)
    IN  IF r.raised THEN [raised |-> TRUE, chunk |-> <<>>, mapping |-> <<>>]
        ELSE [raised |-> FALSE,
              chunk |-> PoolChunk(strs, r.offsets, Pad(r.body)),
              mapping |-> Mapping(strs)]

----------------------------------------------------------------------------
(* Reading a buffer back                                                   *)

\* the little-endian 16-bit and 32-bit words at byte offset o
U16(b, o) == b[o + 1] + (256 * b[o + 2])
U32(b, o) == b[o + 1] + (256 * b[o + 2]) + (65536 * b[o + 3]) + (16777216 * b[o + 4])

\* the four bytes at byte offset o
Word(b, o) == SubSeq(b, o + 1, o + 4)

\* the number of bytes a length prefix takes
PrefixSize(b, o) == IF b[o + 1] < 128 THEN 1 ELSE 2

\* the length encoded by the prefix at byte offset o
PrefixValue(b, o) == DecodeLength(SubSeq(b, o + 1, o + PrefixSize(b, o)))

IsContinuation(x) == x >= 128 /\ x < 192

Utf8Size(lead) ==
    IF lead < 128 THEN 1 ELSE IF lead < 224 THEN 2 ELSE IF lead < 240 THEN 3 ELSE 4

\* the code point whose encoding starts at position p of b
Utf8CodePoint(b, p) ==
    IF b[p] < 128 THEN b[p]
    ELSE IF b[p] < 224 THEN ((b[p] - 192) * 64) + (b[p + 1] - 128)
    ELSE IF b[p] < 240
        THEN ((b[p] - 224) * 4096) + ((b[p + 1] - 128) * 64) + (b[p + 2] - 128)
    ELSE ((b[p] - 240) * 262144) + ((b[p + 1] - 128) * 4096)
         + ((b[p + 2] - 128) * 64) + (b[p + 3] - 128)

\* the code points encoded in positions lo..hi of b, split at a character
\* boundary near the middle
RECURSIVE Utf8Decode(_, _, _)
Utf8Decode(b, lo, hi) ==
    IF lo > hi THEN <<>>
    ELSE LET n == Utf8Size(b[lo])
         IN  IF lo + n > hi THEN <<Utf8CodePoint(b, lo)>>
             ELSE LET half == (lo + hi + 1) \div 2
                      m0 == IF half > lo + n THEN half ELSE lo + n
                      mid == CHOOSE q \in (m0 - 3)..m0 :
                                 /\ q >= lo + n
                                 /\ ~IsContinuation(b[q])
                                 /\ \A r \in (q + 1)..m0 : IsContinuation(b[r])
                 IN  Utf8Decode(b, lo, mid - 1) \o Utf8Decode(b, mid, hi)

\* The fields of a string pool chunk and of its entries, read as a parser
\* reads them: the count, strings-start, the offset table, and at each
\* offset the two length prefixes, the bytes and the terminator.
PoolCount(c) == U32(c, 8)
PoolStringsStart(c) == U32(c, 20)
PoolOffset(c, i) == U32(c, 28 + (4 * i))
EntryAt(c, i) == PoolStringsStart(c) + PoolOffset(c, i)
EntryChars(c, i) == PrefixValue(c, EntryAt(c, i))
EntryBytesAt(c, i) == EntryAt(c, i) + PrefixSize(c, EntryAt(c, i))
EntryByteCount(c, i) == PrefixValue(c, EntryBytesAt(c, i))
EntryData(c, i) == EntryBytesAt(c, i) + PrefixSize(c, EntryBytesAt(c, i))
EntryEnd(c, i) == EntryData(c, i) + EntryByteCount(c, i) + 1
EntryText(c, i) == Utf8Decode(c, EntryData(c, i) + 1, EntryData(c, i) + EntryByteCount(c, i))
PoolStrings(c) == [k \in 1..PoolCount(c) |-> EntryText(c, k - 1)]

\* C2: re-parsing a returned pool chunk recovers the original ordered list;
\* every offset points at the first byte of its string's length prefix (the
\* first entry starts the body and every further entry starts right after
\* the terminator of the one before it), every entry is NUL-terminated and
\* its character count is that of the string, and only zero padding of fewer
\* than four bytes follows the last entry, up to the declared chunk size.
\* A list whose character and byte lengths are all within range never raises.
C2_PoolRoundTrip ==
    /\ (\A k \in 1..Len(strings) :
            Len(strings[k]) <= 16383 /\ Len(Utf8(strings[k])) <= 16383)
        => poolPc # "raised"
    /\ poolPc = "returned" =>
        LET c == poolRet.chunk
            n == PoolCount(c)
            last == IF n = 0 THEN PoolStringsStart(c) ELSE EntryEnd(c, n - 1)
        IN  /\ n = Len(strings)
            /\ PoolStringsStart(c) = 28 + (4 * n)
            /\ \A i \in 0..(n - 1) :
                   /\ PoolOffset(c, i) = IF i = 0 THEN 0
                                         ELSE EntryEnd(c, i - 1) - PoolStringsStart(c)
                   /\ EntryChars(c, i) = Len(strings[i + 1])
                   /\ c[EntryEnd(c, i)] = 0
                   /\ EntryEnd(c, i) <= Len(c)
            /\ PoolStrings(c) = strings
            /\ Len(c) - last < 4
            /\ Len(c) % 4 = 0
            /\ \A q \in (last + 1)..Len(c) : c[q] = 0
            /\ U32(c, 4) = Len(c)

\* a pool of three entries, one of them with non-ASCII text, that needed padding
C2_Witness ==
    /\ poolPc = "returned"
    /\ Len(strings) = 3
    /\ strings[2] = <<8364, 98>>
    /\ Len(poolRet.chunk) > EntryEnd(poolRet.chunk, 2)

HasRepeat(strs) == \E j, k \in 1..Len(strs) : j < k /\ strs[j] = strs[k]

TooLong(text) == Len(text) > 16383

\* C9: when some entry of the input is longer than 0x3FFF the call raises and
\* returns nothing: it never gets past the first such entry, never reaches
\* the packing of the chunk, and no chunk and no mapping is ever returned,
\* whatever was written to the local body before.
C9_NoPartialPool ==
    (\E k \in 1..Len(strings) : TooLong(strings[k])) =>
        /\ poolPc \in {"loop", "raised"}
        /\ poolRet = NoPool
        /\ \A k \in 1..Len(strings) : TooLong(strings[k]) => idx < k

\* the call raised at an over-long entry after an earlier entry had already
\* been written to the local body
C9_Witness ==
    /\ poolPc = "raised"
    /\ body # <<>>
    /\ poolRet = NoPool
    /\ Len(strings) >= 2
    /\ TooLong(strings[2])

----------------------------------------------------------------------------
(* The chunk builders                                                      *)

\* for res_id in resource_ids: chunk += struct.pack("<I", res_id)
build_resource_map(resource_ids) ==
    LET header_size == 8
        chunk_size == header_size + (4 * Len(resource_ids))
    IN  PackH(RES_XML_RESOURCE_MAP_TYPE) \o PackH(header_size) \o PackI(chunk_size)
        \o PackOffsets(resource_ids)

namespace_chunk(chunk_type, prefix_index, uri_index) ==
    LET header_size == 24
        chunk_size == header_size
    IN  PackH(chunk_type) \o PackH(header_size) \o PackI(chunk_size)
        \o PackI(0) \o PackI(0)
        \o PackI(prefix_index) \o PackI(uri_index)

\* one attribute record (lines 97-100)
AttributeBytes(attr) ==
    PackIndex(attr.ns) \o PackI(attr.name) \o PackIndex(attr.raw)
    \o PackH(8) \o PackB(0) \o PackB(attr.data_type) \o PackI(attr.data_value)

RECURSIVE AttributesBytes(_)
AttributesBytes(attributes) ==
    IF attributes = <<>> THEN <<>>
    ELSE AttributeBytes(Head(attributes)) \o AttributesBytes(Tail(attributes))

\* a plausible slip: the declared size counts 16 bytes an attribute
StartElementShortSize(ns_index, name_index, attributes) ==
    LET header_size == 36
        attribute_size == 16
        chunk_size == header_size + (attribute_size * Len(attributes))
    IN  PackH(RES_XML_START_ELEMENT_TYPE) \o PackH(header_size) \o PackI(chunk_size)
        \o PackI(0) \o PackI(0)
        \o PackIndex(ns_index) \o PackI(name_index)
        \o PackH(20) \o PackH(20) \o PackH(Len(attributes))
        \o PackH(0) \o PackH(0) \o PackH(0)
        \o AttributesBytes(attributes)

start_element_chunk(ns_index, name_index, attributes) ==
    LET header_size == 36
        attribute_size == 20
        chunk_size == header_size + (attribute_size * Len(attributes))
    IN  PackH(RES_XML_START_ELEMENT_TYPE) \o PackH(header_size) \o PackI(chunk_size)
        \o PackI(0) \o PackI(0)
        \o PackIndex(ns_index) \o PackI(name_index)
        \o PackH(20) \o PackH(20) \o PackH(Len(attributes))
        \o PackH(0) \o PackH(0) \o PackH(0)
        \o AttributesBytes(attributes)

end_element_chunk(ns_index, name_index) ==
    LET header_size == 24
        chunk_size == header_size
    IN  PackH(RES_XML_END_ELEMENT_TYPE) \o PackH(header_size) \o PackI(chunk_size)
        \o PackI(0) \o PackI(0)
        \o PackIndex(ns_index) \o PackI(name_index)

----------------------------------------------------------------------------
(* build_manifest                                                          *)

\* the string literals of lines 114-127, as code points
STR_manifest == <<109, 97, 110, 105, 102, 101, 115, 116>>
STR_uri ==
    <<104, 116, 116, 112, 58, 47, 47, 115, 99, 104, 101, 109, 97, 115, 46, 97,
      110, 100, 114, 111, 105, 100, 46, 99, 111, 109, 47, 97, 112, 107, 47, 114,
      101, 115, 47, 97, 110, 100, 114, 111, 105, 100>>
STR_android == <<97, 110, 100, 114, 111, 105, 100>>
STR_package == <<112, 97, 99, 107, 97, 103, 101>>
STR_application == <<97, 112, 112, 108, 105, 99, 97, 116, 105, 111, 110>>
STR_activity == <<97, 99, 116, 105, 118, 105, 116, 121>>
STR_intent_filter == <<105, 110, 116, 101, 110, 116, 45, 102, 105, 108, 116, 101, 114>>
STR_action == <<97, 99, 116, 105, 111, 110>>
STR_category == <<99, 97, 116, 101, 103, 111, 114, 121>>
STR_name == <<110, 97, 109, 101>>
STR_com_tencent_mm == <<99, 111, 109, 46, 116, 101, 110, 99, 101, 110, 116, 46, 109, 109>>
STR_MainTabUI ==
    <<99, 111, 109, 46, 116, 101, 110, 99, 101, 110, 116, 46, 109, 109, 46, 117,
      105, 46, 77, 97, 105, 110, 84, 97, 98, 85, 73>>
STR_MAIN ==
    <<97, 110, 100, 114, 111, 105, 100, 46, 105, 110, 116, 101, 110, 116, 46, 97,
      99, 116, 105, 111, 110, 46, 77, 65, 73, 78>>
STR_LAUNCHER ==
    <<97, 110, 100, 114, 111, 105, 100, 46, 105, 110, 116, 101, 110, 116, 46, 99,
      97, 116, 101, 103, 111, 114, 121, 46, 76, 65, 85, 78, 67, 72, 69, 82>>

\* strings = [...] (lines 113-128)
ManifestStrings ==
    << STR_manifest, STR_uri, STR_android, STR_package, STR_application,
       STR_activity, STR_intent_filter, STR_action, STR_category, STR_name,
       STR_com_tencent_mm, STR_MainTabUI, STR_MAIN, STR_LAUNCHER >>

\* [ANDROID_NAME_RESOURCE_ID] (line 130)
ManifestResourceIds == <<ANDROID_NAME_RESOURCE_ID>>

\* (attr_ns, attr_name, raw_index, (DATA_TYPE_STRING, raw_index))
StringAttribute(attr_ns, attr_name, value_index) ==
    [ns |-> attr_ns, name |-> attr_name, raw |-> value_index,
     data_type |-> DATA_TYPE_STRING, data_value |-> value_index]

NamespaceCall(t, prefix_index, uri_index) ==
    [kind |-> "namespace", type |-> t, prefix |-> prefix_index, uri |-> uri_index]
StartCall(ns_index, name_index, attributes) ==
    [kind |-> "start", ns |-> ns_index, name |-> name_index, attrs |-> attributes]
EndCall(ns_index, name_index) ==
    [kind |-> "end", ns |-> ns_index, name |-> name_index]

\* a plausible slip: the activity closed before the intent-filter inside it
ManifestCallsMisnested(ix) ==
    LET ns_uri == ix[STR_uri]
        ns_prefix == ix[STR_android]
    IN  << NamespaceCall(RES_XML_START_NAMESPACE_TYPE, ns_prefix, ns_uri),
           StartCall(None, ix[STR_manifest],
               << StringAttribute(None, ix[STR_package], ix[STR_com_tencent_mm]) >>),
           StartCall(None, ix[STR_application], <<>>),
           StartCall(ns_uri, ix[STR_activity],
               << StringAttribute(ns_uri, ix[STR_name], ix[STR_MainTabUI]) >>),
           StartCall(None, ix[STR_intent_filter], <<>>),
           StartCall(ns_uri, ix[STR_action],
               << StringAttribute(ns_uri, ix[STR_name], ix[STR_MAIN]) >>),
           EndCall(ns_uri, ix[STR_action]),
           StartCall(ns_uri, ix[STR_category],
               << StringAttribute(ns_uri, ix[STR_name], ix[STR_LAUNCHER]) >>),
           EndCall(ns_uri, ix[STR_category]),
           EndCall(ns_uri, ix[STR_activity]),
           EndCall(None, ix[STR_intent_filter]),
           EndCall(None, ix[STR_application]),
           EndCall(None, ix[STR_manifest]),
           NamespaceCall(RES_XML_END_NAMESPACE_TYPE, ns_prefix, ns_uri) >>

\* a plausible slip: the namespace closed before the manifest element
ManifestCallsEarlyNamespaceEnd(ix) ==
    LET ns_uri == ix[STR_uri]
        ns_prefix == ix[STR_android]
    IN  << NamespaceCall(RES_XML_START_NAMESPACE_TYPE, ns_prefix, ns_uri),
           StartCall(None, ix[STR_manifest],
               << StringAttribute(None, ix[STR_package], ix[STR_com_tencent_mm]) >>),
           StartCall(None, ix[STR_application], <<>>),
           StartCall(ns_uri, ix[STR_activity],
               << StringAttribute(ns_uri, ix[STR_name], ix[STR_MainTabUI]) >>),
           StartCall(None, ix[STR_intent_filter], <<>>),
           StartCall(ns_uri, ix[STR_action],
               << StringAttribute(ns_uri, ix[STR_name], ix[STR_MAIN]) >>),
           EndCall(ns_uri, ix[STR_action]),
           StartCall(ns_uri, ix[STR_category],
               << StringAttribute(ns_uri, ix[STR_name], ix[STR_LAUNCHER]) >>),
           EndCall(ns_uri, ix[STR_category]),
           EndCall(None, ix[STR_intent_filter]),
           EndCall(ns_uri, ix[STR_activity]),
           EndCall(None, ix[STR_application]),
           NamespaceCall(RES_XML_END_NAMESPACE_TYPE, ns_prefix, ns_uri),
           EndCall(None, ix[STR_manifest]) >>

\* The fourteen manifest.append(...) calls of lines 134-199, in source order,
\* with the arguments each is given; ix is the dict indexes.
ManifestCalls(ix) ==
    LET ns_uri == ix[STR_uri]
        ns_prefix == ix[STR_android]
    IN  << NamespaceCall(RES_XML_START_NAMESPACE_TYPE, ns_prefix, ns_uri),
           StartCall(None, ix[STR_manifest],
               << StringAttribute(None, ix[STR_package], ix[STR_com_tencent_mm]) >>),
           StartCall(None, ix[STR_application], <<>>),
           StartCall(ns_uri, ix[STR_activity],
               << StringAttribute(ns_uri, ix[STR_name], ix[STR_MainTabUI]) >>),
           StartCall(None, ix[STR_intent_filter], <<>>),
           StartCall(ns_uri, ix[STR_action],
               << StringAttribute(ns_uri, ix[STR_name], ix[STR_MAIN]) >>),
           EndCall(ns_uri, ix[STR_action]),
           StartCall(ns_uri, ix[STR_category],
               << StringAttribute(ns_uri, ix[STR_name], ix[STR_LAUNCHER]) >>),
           EndCall(ns_uri, ix[STR_category]),
           EndCall(None, ix[STR_intent_filter]),
           EndCall(ns_uri, ix[STR_activity]),
           EndCall(None, ix[STR_application]),
           EndCall(None, ix[STR_manifest]),
           NamespaceCall(RES_XML_END_NAMESPACE_TYPE, ns_prefix, ns_uri) >>

\* the chunk a call returns
ChunkOf(call) ==
    CASE call.kind = "namespace" -> namespace_chunk(call.type, call.prefix, call.uri)
      [] call.kind = "start" -> start_element_chunk(call.ns, call.name, call.attrs)
      [] call.kind = "end" -> end_element_chunk(call.ns, call.name)

\* header + payload (lines 200-202)
WrapDocument(chunks) ==
    LET payload == Join(chunks)
    IN  PackH(RES_XML_TYPE) \o PackH(8) \o PackI(Len(payload) + 8) \o payload

----------------------------------------------------------------------------
(* A run of main()                                                         *)

(* The files the run touches.  dexExists and keystoreExists say whether    *)
(* args.dex and args.keystore exist.  outputFile is what lies at           *)
(* args.output:                                                            *)
(*   "absent"     nothing                                                  *)
(*   "stale"      a file that was there before the run                     *)
(*   "truncated"  the archive opened for writing, its directory not yet    *)
(*                written                                                  *)
(*   "unsigned"   the closed archive of both entries, not signed           *)
(*   "signed"     the archive after jarsigner                              *)
(* keytool and jarsigner may exit with a non-zero status; check=True then  *)
(* raises and ends the run, as nothing in main() catches it.  File system  *)
(* errors are left out.                                                    *)

MainInit ==
    /\ pc = "check_dex"
    /\ dexExists \in BOOLEAN
    /\ keystoreExists \in BOOLEAN
    /\ outputFile \in {"absent", "stale"}
    /\ indexes = <<>> /\ manifest = <<>> /\ callNo = 0 /\ manifestBytes = <<>>
    /\ runs = 1
    /\ LenIdle /\ PoolIdle

\* lines 282-283
CheckDex ==
    /\ pc = "check_dex"
    /\ pc' = IF dexExists THEN "build_pool" ELSE "failed"
    /\ UNCHANGED <<dexExists, keystoreExists, outputFile, indexes, manifest, callNo,
                   manifestBytes, runs, lenVars, poolVars>>

\* build_manifest, lines 113-133
BuildPool ==
    /\ pc = "build_pool"
    /\ LET r == build_string_pool(ManifestStrings)
       IN  IF r.raised
           THEN /\ pc' = "failed"
                /\ UNCHANGED <<indexes, manifest>>
           ELSE /\ indexes' = r.mapping
                /\ manifest' = <<r.chunk, build_resource_map(ManifestResourceIds)>>
                /\ pc' = "append"
    /\ UNCHANGED <<dexExists, keystoreExists, outputFile, callNo, manifestBytes,
                   runs, lenVars, poolVars>>

\* build_manifest, the next manifest.append(...) of lines 134-199
AppendChunk ==
    /\ pc = "append"
    /\ callNo < Len(ManifestCalls(indexes))
    /\ manifest' = Append(manifest, ChunkOf(ManifestCalls(indexes)[callNo + 1]))
    /\ callNo' = callNo + 1
    /\ UNCHANGED <<pc, dexExists, keystoreExists, outputFile, indexes, manifestBytes,
                   runs, lenVars, poolVars>>

\* build_manifest, lines 200-202
JoinManifest ==
    /\ pc = "append"
    /\ callNo = Len(ManifestCalls(indexes))
    /\ manifestBytes' = WrapDocument(manifest)
    /\ pc' = "write_tmp"
    /\ UNCHANGED <<dexExists, keystoreExists, outputFile, indexes, manifest, callNo,
                   runs, lenVars, poolVars>>

\* build_apk, lines 250-253: the manifest written to a temporary directory
WriteTmp ==
    /\ pc = "write_tmp"
    /\ pc' = "zip_open"
    /\ UNCHANGED <<dexExists, keystoreExists, outputFile, indexes, manifest, callNo,
                   manifestBytes, runs, lenVars, poolVars>>

\* build_apk, line 254: ZipFile(output, "w") creates or truncates the file
ZipOpen ==
    /\ pc = "zip_open"
    /\ outputFile' = "truncated"
    /\ pc' = "zip_manifest"
    /\ UNCHANGED <<dexExists, keystoreExists, indexes, manifest, callNo,
                   manifestBytes, runs, lenVars, poolVars>>

\* build_apk, line 255
ZipWriteManifest ==
    /\ pc = "zip_manifest"
    /\ pc' = "zip_dex"
    /\ UNCHANGED <<dexExists, keystoreExists, outputFile, indexes, manifest, callNo,
                   manifestBytes, runs, lenVars, poolVars>>

\* build_apk, line 256
ZipWriteDex ==
    /\ pc = "zip_dex"
    /\ pc' = "zip_close"
    /\ UNCHANGED <<dexExists, keystoreExists, outputFile, indexes, manifest, callNo,
                   manifestBytes, runs, lenVars, poolVars>>

\* build_apk, the end of the with block of line 254
ZipClose ==
    /\ pc = "zip_close"
    /\ outputFile' = "unsigned"
    /\ pc' = "checksum"
    /\ UNCHANGED <<dexExists, keystoreExists, indexes, manifest, callNo,
                   manifestBytes, runs, lenVars, poolVars>>

\* build_apk, lines 257-258
Checksum ==
    /\ pc = "checksum"
    /\ pc' = "ensure_keystore"
    /\ UNCHANGED <<dexExists, keystoreExists, outputFile, indexes, manifest, callNo,
                   manifestBytes, runs, lenVars, poolVars>>

\* ensure_debug_keystore, lines 221-222
KeystoreReused ==
    /\ pc = "ensure_keystore"
    /\ keystoreExists
    /\ pc' = "sign"
    /\ UNCHANGED <<dexExists, keystoreExists, outputFile, indexes, manifest, callNo,
                   manifestBytes, runs, lenVars, poolVars>>

\* ensure_debug_keystore, lines 223-246, keytool exiting with 0
Keytool ==
    /\ pc = "ensure_keystore"
    /\ ~keystoreExists
    /\ keystoreExists' = TRUE
    /\ pc' = "sign"
    /\ UNCHANGED <<dexExists, outputFile, indexes, manifest, callNo,
                   manifestBytes, runs, lenVars, poolVars>>

\* lines 223-246, keytool exiting with another status: check=True raises
KeytoolFails ==
    /\ pc = "ensure_keystore"
    /\ ~keystoreExists
    /\ pc' = "failed"
    /\ UNCHANGED <<dexExists, keystoreExists, outputFile, indexes, manifest, callNo,
                   manifestBytes, runs, lenVars, poolVars>>

\* sign_apk, lines 205-218, jarsigner exiting with 0
Jarsigner ==
    /\ pc = "sign"
    /\ outputFile' = "signed"
    /\ pc' = "report"
    /\ UNCHANGED <<dexExists, keystoreExists, indexes, manifest, callNo,
                   manifestBytes, runs, lenVars, poolVars>>

\* lines 205-218, jarsigner exiting with another status: check=True raises
JarsignerFails ==
    /\ pc = "sign"
    /\ pc' = "failed"
    /\ UNCHANGED <<dexExists, keystoreExists, outputFile, indexes, manifest, callNo,
                   manifestBytes, runs, lenVars, poolVars>>

\* line 287
Report ==
    /\ pc = "report"
    /\ pc' = "done"
    /\ UNCHANGED <<dexExists, keystoreExists, outputFile, indexes, manifest, callNo,
                   manifestBytes, runs, lenVars, poolVars>>

\* The script is started again after a run has ended.  What the last run left
\* at the output path is now a file from before the run; the payload may have
\* been put in place or removed in between.
RunAgain ==
    /\ pc \in {"done", "failed"}
    /\ runs < MaxRuns
    /\ runs' = runs + 1
    /\ pc' = "check_dex"
    /\ dexExists' \in BOOLEAN
    /\ outputFile' = IF outputFile = "absent" THEN "absent" ELSE "stale"
    /\ indexes' = <<>> /\ manifest' = <<>> /\ callNo' = 0 /\ manifestBytes' = <<>>
    /\ UNCHANGED <<keystoreExists, lenVars, poolVars>>

Next ==
    \/ CheckDex \/ BuildPool \/ AppendChunk \/ JoinManifest
    \/ WriteTmp \/ ZipOpen \/ ZipWriteManifest
    \/ ZipWriteDex \/ ZipClose \/ Checksum
    \/ KeystoreReused \/ Keytool \/ KeytoolFails
    \/ Jarsigner \/ JarsignerFails \/ Report \/ RunAgain

Spec == MainInit /\ [][Next]_vars

----------------------------------------------------------------------------
(* Re-walking the document                                                 *)

\* The chunks met when walking b from byte offset off, advancing by each
\* chunk's declared totalSize.  The walk stops at the end of the buffer; a
\* header that does not fit, or a declared size that is below 8 or runs
\* past the end, ends it with a record of type -1.
RECURSIVE WalkFrom(_, _)
WalkFrom(b, off) ==
    IF off >= Len(b) THEN <<>>
    ELSE IF off + 8 > Len(b) \/ b[off + 8] >= 128
        THEN << [off |-> off, type |-> -1, headerSize |-> 0, totalSize |-> 0] >>
    ELSE IF U32(b, off + 4) < 8 \/ off + U32(b, off + 4) > Len(b)
        THEN << [off |-> off, type |-> -1, headerSize |-> 0, totalSize |-> 0] >>
    ELSE << [off |-> off, type |-> U16(b, off), headerSize |-> U16(b, off + 2),
             totalSize |-> U32(b, off + 4)] >>
         \o WalkFrom(b, off + U32(b, off + 4))

Walk(b) == WalkFrom(b, 8)

RECURSIVE SumLen(_, _)
SumLen(chunks, k) == IF k = 0 THEN 0 ELSE Len(chunks[k]) + SumLen(chunks, k - 1)

\* the types of the sixteen chunks of the document, in order
ExpectedTypes ==
    <<1, 384, 256, 258, 258, 258, 258, 258, 259, 258, 259, 259, 259, 259, 259, 257>>

Built == manifestBytes # <<>>

\* C1: in the buffer build_manifest returns, the walk from offset 8 by
\* declared totalSize visits exactly the string pool, the resource map, the
\* two namespace chunks and every element start and end chunk; each declared
\* size is the chunk's actual extent (the chunk that was emitted lies exactly
\* at the walked offset and is as long as declared), the walk ends at the end
\* of the buffer, and the outer chunk declares the length of the buffer.
C1_ChunkSizes ==
    Built =>
        LET b == manifestBytes
            w == Walk(b)
        IN  /\ U16(b, 0) = 3
            /\ U16(b, 2) = 8
            /\ U32(b, 4) = Len(b)
            /\ Len(w) = Len(manifest)
            /\ [k \in 1..Len(w) |-> w[k].type] = ExpectedTypes
            /\ \A k \in 1..Len(w) :
                   /\ w[k].off = 8 + SumLen(manifest, k - 1)
                   /\ w[k].totalSize = Len(manifest[k])
                   /\ w[k].headerSize >= 8
                   /\ w[k].headerSize <= w[k].totalSize
                   /\ SubSeq(b, w[k].off + 1, w[k].off + w[k].totalSize) = manifest[k]
            /\ w[Len(w)].off + w[Len(w)].totalSize = Len(b)

\* the document has been assembled from its sixteen chunks
C1_Witness ==
    /\ Built
    /\ Len(manifest) = 16
    /\ Len(Walk(manifestBytes)) = 16
    /\ pc = "write_tmp"

\* the namespace and name words of the element chunk at offset off
NsWord(b, off) == Word(b, off + 16)
NameWord(b, off) == Word(b, off + 20)

\* Whether the element chunks of the walk w, from its k-th chunk on, close
\* the elements of the stack and those they open in last-in first-out order
\* with the same namespace and name words, leave no element open at the
\* namespace-end chunk, and leave none open at the end.
RECURSIVE Balanced(_, _, _, _)
Balanced(b, w, k, stack) ==
    IF k > Len(w) THEN stack = <<>>
    ELSE IF w[k].type = 258
        THEN Balanced(b, w, k + 1,
                      <<[ns |-> NsWord(b, w[k].off), name |-> NameWord(b, w[k].off)]>>
                      \o stack)
    ELSE IF w[k].type = 259
        THEN /\ stack # <<>>
             /\ Head(stack).ns = NsWord(b, w[k].off)
             /\ Head(stack).name = NameWord(b, w[k].off)
             /\ Balanced(b, w, k + 1, Tail(stack))
    ELSE IF w[k].type = 257
        THEN stack = <<>> /\ Balanced(b, w, k + 1, stack)
    ELSE Balanced(b, w, k + 1, stack)

CountType(w, t) == Cardinality({k \in 1..Len(w) : w[k].type = t})

\* C4: in the buffer build_manifest returns every element start chunk is
\* closed by one later end chunk with the same namespace and name indices,
\* each end chunk closes the most recently opened element still open, and
\* no element is open at the namespace-end chunk or at the end.
C4_StackBalanced ==
    Built =>
        LET w == Walk(manifestBytes)
        IN  /\ CountType(w, 258) = CountType(w, 259)
            /\ Balanced(manifestBytes, w, 1, <<>>)

\* the document holds its six elements, opened and closed
C4_Witness ==
    /\ Built
    /\ CountType(Walk(manifestBytes), 258) = 6
    /\ CountType(Walk(manifestBytes), 259) = 6
    /\ pc = "zip_open"

\* the string the word at byte offset off of b names in the pool chunk c
NamedAt(b, off, c) == EntryText(c, U32(b, off))

\* what the k-th chunk of the walk is, with its strings resolved in the pool
Describe(b, w, k) ==
    LET c == SubSeq(b, w[1].off + 1, w[1].off + w[1].totalSize)
    IN  CASE w[k].type = 1 -> <<"pool">>
          [] w[k].type = 384 -> <<"resource map">>
          [] w[k].type = 256 -> <<"namespace start">>
          [] w[k].type = 257 -> <<"namespace end">>
          [] w[k].type = 258 -> <<"start", NamedAt(b, w[k].off + 20, c)>>
          [] w[k].type = 259 -> <<"end", NamedAt(b, w[k].off + 20, c)>>
          [] OTHER -> <<"unknown">>

ExpectedOrder ==
    << <<"pool">>, <<"resource map">>, <<"namespace start">>,
       <<"start", STR_manifest>>, <<"start", STR_application>>,
       <<"start", STR_activity>>, <<"start", STR_intent_filter>>,
       <<"start", STR_action>>, <<"end", STR_action>>,
       <<"start", STR_category>>, <<"end", STR_category>>,
       <<"end", STR_intent_filter>>, <<"end", STR_activity>>,
       <<"end", STR_application>>, <<"end", STR_manifest>>,
       <<"namespace end">> >>

\* C5: build_manifest emits, inside the outer chunk, the string pool, the
\* resource map, namespace-start, the starts of manifest, application,
\* activity, intent-filter and action, the end of action, the start and end
\* of category, the ends of intent-filter, activity, application and
\* manifest, and namespace-end, in this order; there is one namespace-start,
\* before every element chunk, and one namespace-end, after every element
\* chunk, and both carry the same prefix and uri indices (android and the
\* schema URI).  While the chunks are being appended, the list built so far
\* is a prefix of that order.
C5_ChunkOrder ==
    /\ Built =>
        LET b == manifestBytes
            w == Walk(b)
        IN  /\ Len(w) = 16
            /\ [k \in 1..Len(w) |-> Describe(b, w, k)] = ExpectedOrder
            /\ CountType(w, 256) = 1
            /\ CountType(w, 257) = 1
            /\ Word(b, w[3].off + 16) = Word(b, w[16].off + 16)
            /\ Word(b, w[3].off + 20) = Word(b, w[16].off + 20)
            /\ NamedAt(b, w[3].off + 16, manifest[1]) = STR_android
            /\ NamedAt(b, w[3].off + 20, manifest[1]) = STR_uri
    /\ pc = "append" =>
        LET b == WrapDocument(manifest)
            w == Walk(b)
        IN  /\ Len(w) = callNo + 2
            /\ [k \in 1..Len(w) |-> Describe(b, w, k)] = SubSeq(ExpectedOrder, 1, Len(w))

\* the last chunk, namespace-end, has been appended and the document joined
C5_Witness ==
    /\ Built
    /\ callNo = 14
    /\ Describe(manifestBytes, Walk(manifestBytes), 16) = <<"namespace end">>

\* an index word is the sentinel or an index into a pool of n strings
ValidIndex(word, n) ==
    word = NoIndex \/ (word[4] < 128 /\ U32(word, 0) < n)

\* the byte offsets of the attribute records of the start chunk at off
AttributeOffsets(b, off) == {off + 36 + (20 * j) : j \in 0..(U16(b, off + 28) - 1)}

\* the words of the chunk at off that hold a namespace, name or raw-value index
IndexWords(b, x) ==
    IF x.type \in {256, 257, 259} THEN {Word(b, x.off + 16), Word(b, x.off + 20)}
    ELSE IF x.type = 258
        THEN {Word(b, x.off + 16), Word(b, x.off + 20)}
             \cup UNION {{Word(b, a), Word(b, a + 4), Word(b, a + 8)} :
                            a \in AttributeOffsets(b, x.off)}
    ELSE {}

\* how an int | None argument must appear in the buffer
Written(x) == IF x = None THEN NoIndex ELSE PackI(x)

\* C6: in the buffer build_manifest returns, every namespace, name and
\* raw-value index of every namespace chunk, element start chunk, element
\* end chunk and attribute record is an index into the emitted pool or the
\* sentinel 0xFFFFFFFF; where the call passed None the word is the sentinel,
\* and where it passed an index the word is that index.
C6_ValidIndices ==
    Built =>
        LET b == manifestBytes
            w == Walk(b)
            n == PoolCount(manifest[1])
            calls == ManifestCalls(indexes)
        IN  /\ Len(w) = Len(calls) + 2
            /\ \A k \in 1..Len(w) : \A word \in IndexWords(b, w[k]) : ValidIndex(word, n)
            /\ \A k \in 1..Len(calls) :
                   LET off == w[k + 2].off
                       call == calls[k]
                   IN  call.kind \in {"start", "end"} =>
                           /\ NsWord(b, off) = Written(call.ns)
                           /\ NameWord(b, off) = PackI(call.name)
                           /\ call.kind = "start" =>
                                  /\ U16(b, off + 28) = Len(call.attrs)
                                  /\ \A j \in 1..Len(call.attrs) :
                                         LET a == off + 36 + (20 * (j - 1))
                                         IN  /\ Word(b, a) = Written(call.attrs[j].ns)
                                             /\ Word(b, a + 4) = PackI(call.attrs[j].name)
                                             /\ Word(b, a + 8) = Written(call.attrs[j].raw)

\* the document is built, and its manifest start chunk, opened without a
\* namespace, carries the sentinel
C6_Witness ==
    /\ Built
    /\ ManifestCalls(indexes)[2].ns = None
    /\ NsWord(manifestBytes, Walk(manifestBytes)[4].off) = NoIndex
    /\ pc = "zip_manifest"

\* C8: the resource map is positionally aligned with the pool: the string at
\* pool index i is the attribute name that the resource ID at position i of
\* the map identifies, so the position of the android:name ID is the pool
\* index of "name".
C8_ResourceMapAligned ==
    Built =>
        LET pool == manifest[1]
            map == manifest[2]
            count == (U32(map, 4) - U16(map, 2)) \div 4
        IN  \A i \in 0..(count - 1) :
                U32(map, 8 + (4 * i)) = 16842755 =>
                    /\ i < PoolCount(pool)
                    /\ EntryText(pool, i) = STR_name
                    /\ i = indexes[STR_name]

\* C10: whenever a run ends in failure, the run leaves no partial or unsigned
\* archive at the output path.
C10_NoOutputOnFailure ==
    pc = "failed" => outputFile \in {"absent", "stale"}

====
